---- MODULE Spec2Model ----
(***************************************************************************)
(* View-state and scenario-synchronisation controller of the openelec     *)
(* single-page app (app/src/index.js, app/src/config.js).                  *)
(*                                                                         *)
(* The program state is the module-level variables of index.js, the part   *)
(* of the DOM the handlers read and write (hidden classes, sidebar         *)
(* contents, the loading modal), the part of the Mapbox map they read and  *)
(* write (layers, filters, paint properties, sources) and the requests     *)
(* and timers in flight.  One action per event handler / callback.         *)
(*                                                                         *)
(* Handlers are written as operators from a state record to a state        *)
(* record so that a handler that calls another (plan -> updateSliders ->   *)
(* chooseCountry) is the composition of the operators; an action applies   *)
(* one handler to the current state (Cur) and stores the result (Set).     *)
(***************************************************************************)
EXTENDS Integers, Sequences, FiniteSets, Bags, TLC

(***************************************************************************)
(* Bounds of the model.                                                    *)
(***************************************************************************)
\* A behaviour is one session of the user, bounded in the number of inputs
\* that leave something behind (a request, a stored value); navigation,
\* stepping and zooming out are not bounded.
\* country selections
MaxExplores == 1
\* requests to a service: clicks on the run control and on a cluster
MaxRequests == 2
\* slide events
MaxSlides == 2
\* clusters of a country the user may click
NumClusters == 1
\* clicks on the map of the mini-grid front end
MaxClicks == 3
\* clicks on the run control of the mini-grid front end
MaxMgoRuns == 2
\* positions a slider handle is dragged to: min + k * step (when that is
\* not beyond max), and max
SlideSteps == {0, 1, 50}

\* countries of config.js used by the model: one of the deny-list, one not
Countries == {"kenya", "ghana"}

(***************************************************************************)
(* Program constants.                                                      *)
(***************************************************************************)
disabledDynamic == {"ethiopia", "kenya", "tanzania"}
\* numBuildings > MaxBuildings is rejected, numBuildings < MinBuildings too
MaxBuildings == 2000
MinBuildings == 5
\* year shown for step 1 and the difference between two steps
FirstYear == 2025
YearStep == 5
LastStep == 4

StateKeys == {"plan-nat", "plan-loc", "find-nat"}

(***************************************************************************)
(* JavaScript strings are sequences of one-character strings, numbers are  *)
(* decimals m * 10^e (m not divisible by 10 unless 0), so that the         *)
(* formatting of a number into sliderParams and JSON.parse reading it      *)
(* back are computed, not assumed.                                         *)
(***************************************************************************)
Digits == <<"0", "1", "2", "3", "4", "5", "6", "7", "8", "9">>

RECURSIVE Pow10(_)
Pow10(n) == IF n = 0 THEN 1 ELSE 10 * Pow10(n - 1)

RECURSIVE Norm(_, _)
Norm(m, e) ==
  IF m = 0 THEN [m |-> 0, e |-> 0]
  ELSE IF m % 10 = 0 THEN Norm(m \div 10, e + 1)
  ELSE [m |-> m, e |-> e]

Num(n) == Norm(n, 0)

\* position of the first c in cs, 0 when there is none
IndexOf(cs, c) ==
  IF \E i \in 1..Len(cs) : cs[i] = c
  THEN CHOOSE i \in 1..Len(cs) : cs[i] = c /\ \A j \in 1..(i - 1) : cs[j] # c
  ELSE 0

RECURSIVE DigitsToInt(_)
DigitsToInt(cs) ==
  IF cs = <<>> THEN 0
  ELSE 10 * DigitsToInt(SubSeq(cs, 1, Len(cs) - 1)) + (CHOOSE i \in 1..10 : Digits[i] = cs[Len(cs)]) - 1

\* number of "0" at the end of cs
RECURSIVE TrailingZeros(_)
TrailingZeros(cs) ==
  IF cs = <<>> \/ cs[Len(cs)] # "0" THEN 0
  ELSE 1 + TrailingZeros(SubSeq(cs, 1, Len(cs) - 1))

\* the digits ds times 10^e; the zeros at the end of the digits go to the
\* exponent before the digits are read, which keeps 10000000000000000000
\* inside TLC's integers
ReadDigits(ds, e) ==
  LET z == TrailingZeros(ds)
  IN  Norm(DigitsToInt(SubSeq(ds, 1, Len(ds) - z)), e + z)

\* mant is [int][.frac], expDs the digits of the exponent
ParseFloat(mant, expDs) ==
  LET dot == IndexOf(mant, ".")
  IN  IF dot = 0 THEN ReadDigits(mant, DigitsToInt(expDs))
      ELSE ReadDigits(SubSeq(mant, 1, dot - 1) \o SubSeq(mant, dot + 1, Len(mant)),
                      DigitsToInt(expDs) - (Len(mant) - dot))

\* parseFloat / the number grammar of JSON.parse, for [int][.frac][e[+]exp]
ParseNum(cs) ==
  LET ePos == IndexOf(cs, "e")
  IN  IF ePos = 0 THEN ParseFloat(cs, <<>>)
      ELSE ParseFloat(SubSeq(cs, 1, ePos - 1),
                      SubSeq(cs, ePos + (IF ePos < Len(cs) /\ cs[ePos + 1] = "+"
                                         THEN 2 ELSE 1),
                             Len(cs)))

RECURSIVE IntToDigits(_)
IntToDigits(n) ==
  IF n < 10 THEN <<Digits[n + 1]>>
  ELSE IntToDigits(n \div 10) \o <<Digits[(n % 10) + 1]>>

Zeros(n) == [i \in 1..n |-> "0"]

\* Number.prototype.toString for 0 <= d < 1e21 (no exponent form below 1e21):
\* the digits ds of the mantissa with the point moved by e
PlaceDigits(ds, e) ==
  IF e >= 0 THEN ds \o Zeros(e)
  ELSE IF Len(ds) > -e
       THEN SubSeq(ds, 1, Len(ds) + e) \o <<".">>
              \o SubSeq(ds, Len(ds) + e + 1, Len(ds))
       ELSE <<"0", ".">> \o Zeros(-e - Len(ds)) \o ds

FormatNum(d) == PlaceDigits(IntToDigits(d.m), d.e)

\* a + b and k * a on decimals
MinExp(a, b) == IF a.e < b.e THEN a.e ELSE b.e
DecAdd(a, b) ==
  Norm(a.m * Pow10(a.e - MinExp(a, b)) + b.m * Pow10(b.e - MinExp(a, b)),
       MinExp(a, b))
DecMul(k, a) == Norm(k * a.m, a.e)

\* a <= b on non-negative decimals; exponents more than 9 apart are decided
\* by the exponent, which keeps the arithmetic inside TLC's integers
DecLe(a, b) ==
  IF a.m = 0 THEN TRUE
  ELSE IF b.m = 0 THEN FALSE
  ELSE IF a.e - b.e > 9 THEN FALSE
  ELSE IF b.e - a.e > 9 THEN TRUE
  ELSE a.m * Pow10(a.e - MinExp(a, b)) <= b.m * Pow10(b.e - MinExp(a, b))

\* JSON.parse of a two-element array of numbers, "[lo,hi]"
ParseRange(cs) ==
  LET comma == IndexOf(cs, ",")
  IN  << ParseNum(SubSeq(cs, 2, comma - 1)),
         ParseNum(SubSeq(cs, comma + 1, Len(cs) - 1)) >>

\* a sentinel below every lower bound
UnboundedZero == [m |-> 0, e |-> 0]

\* the value a range slide stores when the upper handle is at max
Unbounded == [m |-> 1, e |-> 19]
Infinity == <<"inf">>

(***************************************************************************)
(* config.js: sliderConfigs, per scenario key the parameters in declared   *)
(* order with their kind, default and bounds (all strings in the source).  *)
(***************************************************************************)
sliderConfigs ==
  "plan-nat" :> <<
      [name |-> "grid-dist", type |-> "single", default |-> <<"1">>,
       min |-> <<"0">>, max |-> <<"5">>, step |-> <<"0", ".", "5">>],
      [name |-> "demand-factor", type |-> "single", default |-> <<"5">>,
       min |-> <<"1">>, max |-> <<"2", "0">>, step |-> <<"1">>],
      [name |-> "min-pop", type |-> "single", default |-> <<"1", "0", "0">>,
       min |-> <<"0">>, max |-> <<"1", "0", "0", "0">>, step |-> <<"5", "0">>],
      [name |-> "demand-ppm", type |-> "single", default |-> <<"6">>,
       min |-> <<"0">>, max |-> <<"1", "0", "0">>, step |-> <<"2">>],
      [name |-> "mg-gen-cost", type |-> "single", default |-> <<"4", "0", "0", "0">>,
       min |-> <<"0">>, max |-> <<"1", "0", "0", "0", "0">>, step |-> <<"5", "0", "0">>],
      [name |-> "mg-lv-cost", type |-> "single", default |-> <<"2">>,
       min |-> <<"0">>, max |-> <<"1", "0">>, step |-> <<"1">>],
      [name |-> "grid-mv-cost", type |-> "single", default |-> <<"5", "0">>,
       min |-> <<"0">>, max |-> <<"2", "0", "0">>, step |-> <<"1", "0">>],
      [name |-> "grid-lv-cost", type |-> "single", default |-> <<"2">>,
       min |-> <<"0">>, max |-> <<"1", "0">>, step |-> <<"1">>]
    >>
  @@ "plan-loc" :> <<
      [name |-> "min-area", type |-> "single", default |-> <<"3", "0">>,
       min |-> <<"0">>, max |-> <<"1", "0", "0">>, step |-> <<"5">>],
      [name |-> "demand", type |-> "single", default |-> <<"1", "0">>,
       min |-> <<"0">>, max |-> <<"1", "0", "0">>, step |-> <<"2">>],
      [name |-> "tariff", type |-> "single", default |-> <<"0", ".", "5">>,
       min |-> <<"0">>, max |-> <<"1">>, step |-> <<"0", ".", "0", "5">>],
      [name |-> "gen-cost", type |-> "single", default |-> <<"1", "0", "0", "0">>,
       min |-> <<"0">>, max |-> <<"1", "0", "0", "0", "0">>, step |-> <<"5", "0", "0">>],
      [name |-> "wire-cost", type |-> "single", default |-> <<"1", "0">>,
       min |-> <<"0">>, max |-> <<"5", "0">>, step |-> <<"5">>],
      [name |-> "conn-cost", type |-> "single", default |-> <<"1", "0", "0">>,
       min |-> <<"0">>, max |-> <<"5", "0", "0">>, step |-> <<"2", "0">>],
      [name |-> "opex-ratio", type |-> "single", default |-> <<"2">>,
       min |-> <<"0">>, max |-> <<"1", "0">>, step |-> <<"1">>],
      [name |-> "years", type |-> "single", default |-> <<"2", "0">>,
       min |-> <<"0">>, max |-> <<"3", "0">>, step |-> <<"1">>],
      [name |-> "discount-rate", type |-> "single", default |-> <<"6">>,
       min |-> <<"0">>, max |-> <<"2", "0">>, step |-> <<"1">>]
    >>
  @@ "find-nat" :> <<
      [name |-> "pop-range", type |-> "range", default |-> <<"[", "0", ",", "1", "e", "1", "4", "]">>,
       min |-> <<"0">>, max |-> <<"1", "0", "0", "0", "0">>, step |-> <<"1", "0", "0">>],
      [name |-> "grid-range", type |-> "range", default |-> <<"[", "0", ",", "1", "e", "1", "4", "]">>,
       min |-> <<"0">>, max |-> <<"4", "0">>, step |-> <<"1">>],
      [name |-> "ntl-range", type |-> "range", default |-> <<"[", "0", ".", "0", ",", "1", "e", "1", "4", "]">>,
       min |-> <<"0", ".", "0">>, max |-> <<"1", ".", "0">>, step |-> <<"0", ".", "1">>],
      [name |-> "gdp-range", type |-> "range", default |-> <<"[", "0", ",", "1", "e", "1", "4", "]">>,
       min |-> <<"0">>, max |-> <<"1", "0", "0", "0">>, step |-> <<"1", "0", "0">>],
      [name |-> "travel-range", type |-> "range", default |-> <<"[", "0", ",", "1", "e", "1", "4", "]">>,
       min |-> <<"0">>, max |-> <<"2", "0">>, step |-> <<"1">>]
    >>

\* the table by state key and parameter name
ConfigNamesOf ==
  [state \in StateKeys |->
     {sliderConfigs[state][i].name : i \in 1..Len(sliderConfigs[state])}]
ConfigByName ==
  [state \in StateKeys |->
     [name \in ConfigNamesOf[state] |->
        sliderConfigs[state][CHOOSE i \in 1..Len(sliderConfigs[state]) :
                               sliderConfigs[state][i].name = name]]]

(***************************************************************************)
(* Program state.  Presentation state that the handlers write and never    *)
(* read back is not modelled: the legend and its cache, the classes of the *)
(* navigation buttons, the camera, the grid and lv sources, the label of   *)
(* the download control.                                                   *)
(***************************************************************************)
VARIABLES
  \* module-level variables of index.js
  activeModel,     \* "plan", "find"; "none" is undefined
  zoomed,          \* undefined is falsy: FALSE
  currentStep,
  dynamic,
  dynamicSummary,  \* [country, steps]; country "" is undefined
  country,         \* "" is null
  sliderParams,    \* state key -> parameter name -> string
  summaryHtml,
  clusterBounds,   \* id of the clicked cluster, 0 is undefined
  layersAdded,
  \* DOM
  hidden,          \* element id -> has class 'hidden'
  loading,         \* the #loading-bar modal is shown
  runDisabled,     \* #run-model has class 'disabled'
  announce,        \* content of #map-announce
  stepYear,        \* content of #step-year
  sliders,         \* state key whose sliders #sliders holds, "" for none
  labels,          \* parameter name -> text of its value label
  summary,         \* content of #summary
  switchDynamic,   \* #switch-dynamic is checked
  \* Mapbox map
  network,         \* the 'network' layer
  clusters,        \* the 'clusters' and 'clusters-outline' layers
  clData,          \* the 'clusters' source holds features
  bldData,         \* data of the 'buildings' source
  \* requests and timers in flight
  loads,           \* bag of country geometry requests
  runs,            \* bag of model-run requests
  overpass,        \* bag of building-footprint requests
  timers,          \* pending resetAnnounce timers
  skipTimer,       \* the timer of skipToCountry is pending
  \* the mini-grid front end
  mgo,             \* its globals, its page and its map
  \* bookkeeping of the model, not program state
  used,            \* inputs of each bounded kind so far
  hist             \* the scenario in progress, with the state it started from

progVars ==
  << activeModel, zoomed, currentStep, dynamic, dynamicSummary, country,
     sliderParams, summaryHtml, clusterBounds, layersAdded,
     hidden, loading, runDisabled, announce, stepYear, sliders, labels,
     summary, switchDynamic, network, clusters, clData, bldData,
     loads, runs, overpass, timers, skipTimer >>
vars == << progVars, mgo, used, hist >>

\* the current state as one record, and the assignment of a record to the
\* variables
Cur ==
  [ activeModel |-> activeModel, zoomed |-> zoomed, currentStep |-> currentStep,
    dynamic |-> dynamic, dynamicSummary |-> dynamicSummary, country |-> country,
    sliderParams |-> sliderParams, summaryHtml |-> summaryHtml,
    clusterBounds |-> clusterBounds,
    layersAdded |-> layersAdded, hidden |-> hidden, loading |-> loading,
    runDisabled |-> runDisabled, announce |-> announce, stepYear |-> stepYear,
    sliders |-> sliders, labels |-> labels, summary |-> summary,
    switchDynamic |-> switchDynamic, network |-> network,
    clusters |-> clusters, clData |-> clData, bldData |-> bldData,
    loads |-> loads, runs |-> runs, overpass |-> overpass,
    timers |-> timers, skipTimer |-> skipTimer ]

\* r is bound to its value first: a handler is evaluated once per step
Set(r) ==
  \E s \in {r} :
    /\ activeModel' = s.activeModel
    /\ zoomed' = s.zoomed
    /\ currentStep' = s.currentStep
    /\ dynamic' = s.dynamic
    /\ dynamicSummary' = s.dynamicSummary
    /\ country' = s.country
    /\ sliderParams' = s.sliderParams
    /\ summaryHtml' = s.summaryHtml
    /\ clusterBounds' = s.clusterBounds
    /\ layersAdded' = s.layersAdded
    /\ hidden' = s.hidden
    /\ loading' = s.loading
    /\ runDisabled' = s.runDisabled
    /\ announce' = s.announce
    /\ stepYear' = s.stepYear
    /\ sliders' = s.sliders
    /\ labels' = s.labels
    /\ summary' = s.summary
    /\ switchDynamic' = s.switchDynamic
    /\ network' = s.network
    /\ clusters' = s.clusters
    /\ clData' = s.clData
    /\ bldData' = s.bldData
    /\ loads' = s.loads
    /\ runs' = s.runs
    /\ overpass' = s.overpass
    /\ timers' = s.timers
    /\ skipTimer' = s.skipTimer
    /\ mgo' = mgo

(***************************************************************************)
(* Contents.  A rendered summary is identified by what it was rendered     *)
(* from: the scenario key, the country or cluster of the run and the step  *)
(* of a dynamic plan (0: not a step).                                      *)
(***************************************************************************)
Blank == [key |-> "", country |-> "", bounds |-> 0, step |-> 0]
\* the header and the opening <p> that updateSummary writes before its loop
Partial == [key |-> "partial", country |-> "", bounds |-> 0, step |-> 0]
Rendered(key, c, b, k) == [key |-> key, country |-> c, bounds |-> b, step |-> k]

NoPlan == [country |-> "", steps |-> FALSE]
NoBuildings == [kind |-> "empty", of |-> 0]
NoFilter == <<>>

PanelIds == {"landing", "explore", "about", "countries"}
ElementIds == PanelIds \cup {"dynamic-box", "server-offline"}

(***************************************************************************)
(* hide, show, enableClass, disableClass                                   *)
(***************************************************************************)
hide(s, elementId) == [s EXCEPT !.hidden[elementId] = TRUE]
show(s, elementId) == [s EXCEPT !.hidden[elementId] = FALSE]

(***************************************************************************)
(* updateSliders(state): fill the missing parameters of the scenario with  *)
(* their defaults and render the sliders with their value labels.          *)
(***************************************************************************)
ParamsOf(s, state) ==
  IF state \in DOMAIN s.sliderParams THEN s.sliderParams[state] ELSE <<>>

\* the test of a missing value taking a stored 0 for missing as well
MissingOrZero(params, name) ==
  name \notin DOMAIN params \/ params[name] = <<>> \/ params[name] = <<"0">>

\* !sliderParams[state][name]: undefined or the empty string
Missing(params, name) == name \notin DOMAIN params \/ params[name] = <<>>

initialLabel(cfg, value) ==
  IF cfg.type = "range"
  THEN FormatNum(ParseRange(value)[1]) \o <<" ", "-", " ">> \o Infinity
  ELSE value

\* sliderParams[state] with the default of every parameter that is missing
fillDefaults(old, state) ==
  [n \in DOMAIN old \cup ConfigNamesOf[state] |->
     IF n \in ConfigNamesOf[state] /\ Missing(old, n)
     THEN ConfigByName[state][n].default ELSE old[n]]

renderSliders(s, state, filled) ==
  [s EXCEPT !.sliderParams = (state :> filled) @@ @,
            !.sliders = state,
            !.labels = [n \in ConfigNamesOf[state] |->
                          initialLabel(ConfigByName[state][n], filled[n])]]

updateSliders(s, state) ==
  renderSliders(s, state, fillDefaults(ParamsOf(s, state), state))

(***************************************************************************)
(* hideClusters(): the filter of the clusters layers from the five range   *)
(* parameters of 'find-nat'.  A clause is <<operator, property, value>>;   *)
(* the list stands for ['all', clause, ...].                               *)
(***************************************************************************)
FilterParams == <<"pop", "grid", "ntl", "gdp", "travel">>
RangeName(attr) == CASE attr = "pop" -> "pop-range"
                     [] attr = "grid" -> "grid-range"
                     [] attr = "ntl" -> "ntl-range"
                     [] attr = "gdp" -> "gdp-range"
                     [] attr = "travel" -> "travel-range"

\* the two clauses of one attribute from its parsed range
clausesOf(attr, range) ==
  << <<">=", attr, range[1]>>, <<"<=", attr, range[2]>> >>

\* hiddenFilters with the ntl clauses before the grid clauses
hiddenFiltersNtlFirst(params) ==
  clausesOf("pop", ParseRange(params["pop-range"]))
    \o clausesOf("ntl", ParseRange(params["ntl-range"]))
    \o clausesOf("grid", ParseRange(params["grid-range"]))
    \o clausesOf("gdp", ParseRange(params["gdp-range"]))
    \o clausesOf("travel", ParseRange(params["travel-range"]))

hiddenFilters(params) ==
  clausesOf("pop", ParseRange(params["pop-range"]))
    \o clausesOf("grid", ParseRange(params["grid-range"]))
    \o clausesOf("ntl", ParseRange(params["ntl-range"]))
    \o clausesOf("gdp", ParseRange(params["gdp-range"]))
    \o clausesOf("travel", ParseRange(params["travel-range"]))

\* JSON.parse(undefined) throws: the handler stops before any setFilter.
hideClustersThrows(s) ==
  \E i \in 1..Len(FilterParams) :
     Missing(ParamsOf(s, "find-nat"), RangeName(FilterParams[i]))

\* map.setFilter on a layer that does not exist reports an error event and
\* changes nothing.
setClusterFilters(s, f) ==
  IF s.layersAdded
  THEN [s EXCEPT !.clusters.filter = f, !.clusters.outlineFilter = f]
  ELSE s

\* the clauses of an attribute left out when its range is missing
clausesIfStored(params, attr) ==
  IF Missing(params, RangeName(attr)) THEN <<>>
  ELSE clausesOf(attr, ParseRange(params[RangeName(attr)]))

\* hideClusters() building the filter from the ranges that are stored
hideClustersSkipsMissing(s) ==
  setClusterFilters(s,
    clausesIfStored(ParamsOf(s, "find-nat"), "pop")
      \o clausesIfStored(ParamsOf(s, "find-nat"), "grid")
      \o clausesIfStored(ParamsOf(s, "find-nat"), "ntl")
      \o clausesIfStored(ParamsOf(s, "find-nat"), "gdp")
      \o clausesIfStored(ParamsOf(s, "find-nat"), "travel"))

hideClusters(s) ==
  IF hideClustersThrows(s) THEN s
  ELSE setClusterFilters(s, hiddenFilters(s.sliderParams["find-nat"]))

(***************************************************************************)
(* Slide handler of one slider (registered by updateSliders).  value is    *)
(* the number of a single slider, <<from, to>> of a range slider.          *)
(***************************************************************************)
\* the range branch of the slide handler without the test of to == max
slideRangeNoSentinel(cfg, value) ==
  [ textVal   |-> FormatNum(value[1]) \o <<" ", "-", " ">> \o FormatNum(value[2]),
    sliderVal |-> <<"[">> \o FormatNum(value[1]) \o <<",">>
                    \o FormatNum(value[2]) \o <<"]">> ]

\* the upper handle at the slider's max reads as unbounded
slideRange(cfg, value) ==
  [ textVal   |-> FormatNum(value[1]) \o <<" ", "-", " ">>
                    \o (IF value[2] = ParseNum(cfg.max)
                        THEN Infinity ELSE FormatNum(value[2])),
    sliderVal |-> <<"[">> \o FormatNum(value[1]) \o <<",">>
                    \o FormatNum(IF value[2] = ParseNum(cfg.max)
                                 THEN Unbounded ELSE value[2])
                    \o <<"]">> ]

slideSingle(cfg, value) ==
  [ textVal |-> FormatNum(value), sliderVal |-> FormatNum(value) ]

slideResult(cfg, value) ==
  IF cfg.type = "range" THEN slideRange(cfg, value) ELSE slideSingle(cfg, value)

\* the slide handler submitting the scenario with the value it stored
storeSlideAndRun(s, state, name, r) ==
  [s EXCEPT !.labels[name] = r.textVal,
            !.sliderParams[state][name] = r.sliderVal,
            !.runs = @ (+) SetToBag({[scen |-> state, country |-> s.country,
                                      bounds |-> 0, dynamic |-> FALSE]})]

storeSlide(s, state, name, r) ==
  [s EXCEPT !.labels[name] = r.textVal,
            !.sliderParams[state][name] = r.sliderVal]

\* the slide handler without its call of hideClusters()
onSlideNoRefilter(s, state, name, value) ==
  storeSlide(s, state, name, slideResult(ConfigByName[state][name], value))

onSlide(s, state, name, value) ==
  IF state = "find-nat"
  THEN hideClusters(storeSlide(s, state, name,
                               slideResult(ConfigByName[state][name], value)))
  ELSE storeSlide(s, state, name, slideResult(ConfigByName[state][name], value))

(***************************************************************************)
(* updateSummary(state, summaryData)                                       *)
(***************************************************************************)
\* what a run returns in place of a summary the caller expected elsewhere:
\* undefined, or an object without the summary's fields.  updateSummary
\* writes the header and throws in its first iteration.
NoSummary == [key |-> "undefined", country |-> "", bounds |-> 0, step |-> 0]

updateSummaryThrows(summaryData) == summaryData = NoSummary

updateSummary(s, state, summaryData) ==
  IF updateSummaryThrows(summaryData)
  THEN [s EXCEPT !.summary = Partial]
  ELSE [s EXCEPT !.summary = summaryData, !.summaryHtml[state] = summaryData]

(***************************************************************************)
(* addMapLayers, chooseCountry, plan, find, home, about                    *)
(***************************************************************************)
\* a cluster styling is identified by the property the colour is read
\* from: 'type', 'score', or 'type_' + step of dynamicPlanNat
Styling(property, step) == [get |-> property, step |-> step]
clusterStylingPlan == Styling("type", 0)
clusterStylingFind == Styling("score", 0)
NoStyling == Styling("", 0)

NoLayers ==
  [ fillColor |-> NoStyling, lineColor |-> NoStyling, filter |-> NoFilter,
    outlineFilter |-> NoFilter, opacity |-> "", popupOnHover |-> FALSE ]

addMapLayers(s) ==
  [s EXCEPT !.clusters = [ fillColor |-> clusterStylingPlan,
                           lineColor |-> clusterStylingPlan,
                           filter |-> NoFilter, outlineFilter |-> NoFilter,
                           opacity |-> "0.5", popupOnHover |-> TRUE ],
            !.clData = FALSE,
            !.bldData = NoBuildings]

\* map.setPaintProperty on a layer that does not exist changes nothing
setClusterColors(s, styling) ==
  IF s.layersAdded
  THEN [s EXCEPT !.clusters.fillColor = styling, !.clusters.lineColor = styling]
  ELSE s

\* the clusters layers are added at the first choice of a country
chooseCountry(s) ==
  [show(hide(hide(hide(
     IF ~s.layersAdded THEN [addMapLayers(s) EXCEPT !.layersAdded = TRUE] ELSE s,
     "landing"), "explore"), "about"), "countries")
     EXCEPT !.zoomed = FALSE]

\* the blocks of plan() and find()
showDynamicBox(s) == IF s.dynamic THEN show(s, "dynamic-box") ELSE s

\* the summary pane left as it is when the cache has nothing for the key
restoreSummaryKeeps(s, state) ==
  IF s.summaryHtml[state] = Blank THEN s
  ELSE [s EXCEPT !.summary = s.summaryHtml[state]]

restoreSummary(s, state) == [s EXCEPT !.summary = s.summaryHtml[state]]

setNetworkVisible(s, visible) ==
  IF s.network.exists THEN [s EXCEPT !.network.visible = visible] ELSE s

planClusters(s) ==
  IF s.layersAdded
  THEN setClusterFilters(setClusterColors(s, clusterStylingPlan), NoFilter)
  ELSE s

findClusters(s) ==
  IF s.layersAdded
  THEN hideClusters(setClusterColors(s, clusterStylingFind))
  ELSE s

\* plan() loading the grid of the selected country again
planPanelsRefetches(s) ==
  IF s.country = "" THEN chooseCountry(s)
  ELSE [hide(hide(show(hide(s, "landing"), "explore"), "about"), "countries")
          EXCEPT !.loads = @ (+) SetToBag({[kind |-> "grid", country |-> s.country]})]

planPanels(s) ==
  IF s.country = "" THEN chooseCountry(s)
  ELSE hide(hide(show(hide(s, "landing"), "explore"), "about"), "countries")

findPanels(s) ==
  IF s.country = "" THEN chooseCountry(s)
  ELSE hide(hide(hide(show(hide(s, "landing"), "explore"), "dynamic-box"),
                 "about"), "countries")

plan(s) ==
  planPanels(planClusters(setNetworkVisible(restoreSummary(showDynamicBox(
    updateSliders([s EXCEPT !.activeModel = "plan", !.zoomed = FALSE],
                  "plan-nat")), "plan-nat"), TRUE)))

find(s) ==
  findPanels(findClusters(setNetworkVisible(restoreSummary(
    updateSliders([s EXCEPT !.activeModel = "find", !.zoomed = FALSE],
                  "find-nat"), "find-nat"), FALSE)))

home(s) == hide(hide(hide(show(s, "landing"), "explore"), "about"), "countries")

\* about() without its hide('explore')
aboutKeepsExplore(s) == hide(show(hide(s, "landing"), "about"), "countries")

about(s) == hide(show(hide(hide(s, "landing"), "explore"), "about"), "countries")

(***************************************************************************)
(* explore(): show the country selected and request its geometry           *)
(***************************************************************************)
GridReq(c) == [kind |-> "grid", country |-> c]
ClustersReq(c) == [kind |-> "clusters", country |-> c]

\* explore() emptying the cache of summaries for the new country
exploreClearsSummary(s, c) ==
  hide(hide(show(hide(
    [hide([s EXCEPT !.country = c], "dynamic-box")
       EXCEPT !.loading = TRUE,
              !.loads = @ (+) SetToBag({GridReq(c)})
                          (+) SetToBag({ClustersReq(c)}),
              !.announce = "clickMsg",
              !.summaryHtml = [k \in DOMAIN @ |-> Blank]],
    "landing"), "explore"), "about"), "countries")

explore(s, c) ==
  hide(hide(show(hide(
    [hide([s EXCEPT !.country = c], "dynamic-box")
       EXCEPT !.loading = TRUE,
              !.loads = @ (+) SetToBag({GridReq(c)})
                          (+) SetToBag({ClustersReq(c)}),
              !.announce = "clickMsg"],
    "landing"), "explore"), "about"), "countries")

gridLoaded(s, c) == [s EXCEPT !.loads = @ (-) SetToBag({GridReq(c)})]

clustersLoaded(s, c) ==
  [s EXCEPT !.loads = @ (-) SetToBag({ClustersReq(c)}),
            !.clData = TRUE,
            !.loading = FALSE]

loadFailed(s, req) ==
  [show(s, "server-offline") EXCEPT !.loads = @ (-) SetToBag({req}),
                                    !.loading = FALSE]

\* the timer of skipToCountry: the country came with the URL
skipToCountry(s) ==
  explore(find(chooseCountry([s EXCEPT !.skipTimer = FALSE])), s.country)

(***************************************************************************)
(* runModel and the three run functions.  A request is identified by the   *)
(* scenario, the country or cluster it was made for and, for plan_nat,     *)
(* the dynamic flag sent; the service's answer is a function of these.     *)
(* The fields the run functions inject into sliderParams (country, the     *)
(* access rates, dynamic, mtf, bounds) are carried by the request: nothing *)
(* reads them back from sliderParams.                                      *)
(***************************************************************************)
RunReq(scen, c, b, d) == [scen |-> scen, country |-> c, bounds |-> b, dynamic |-> d]

sendPlanNat(s, d) ==
  [s EXCEPT !.dynamic = d,
            !.runs = @ (+) SetToBag({RunReq("plan-nat", s.country, 0, d)})]

runPlanNat(s) ==
  sendPlanNat(s, IF s.country \in disabledDynamic THEN FALSE ELSE s.switchDynamic)

\* bounds is "south, west, north, east" of clusterBounds, never empty
runPlanLoc(s) ==
  [s EXCEPT !.runs = @ (+) SetToBag({RunReq("plan-loc", "", s.clusterBounds, FALSE)})]

runFindNat(s) ==
  [s EXCEPT !.runs = @ (+) SetToBag({RunReq("find-nat", s.country, 0, FALSE)})]

runFor(s) ==
  IF s.zoomed THEN runPlanLoc(s)
  ELSE IF s.activeModel = "plan" THEN runPlanNat(s)
  ELSE IF s.activeModel = "find" THEN runFindNat(s)
  ELSE s

runModel(s) == runFor([s EXCEPT !.loading = TRUE])

\* error callback of the three requests
runFailed(s, req) ==
  [s EXCEPT !.runs = @ (-) SetToBag({req}), !.loading = FALSE]

(***************************************************************************)
(* dynamicPlanNat, prevStep, nextStep                                      *)
(***************************************************************************)
\* the filter of dynamicPlanNat admitting the stage of the step alone
StageOnly(step) == <<"==", "stage", step>>

StageUpTo(step) == <<"<=", "stage", step>>
StageIs(step) == <<"==", "stage", step>>
\* clusterStylingDynamic: the colour is read from 'type_' + step
TypeKey(step) == Styling("type_", step)

\* dynamicSummary[step]: a TypeError when dynamicSummary is undefined,
\* undefined when it is the flat summary of a run that was not dynamic
\* map.setFilter on the network layer, which exists after the first plan
setNetworkFilter(s, f) ==
  IF s.network.exists THEN [s EXCEPT !.network.filter = f] ELSE s

stageSummary(s, step) ==
  IF s.dynamicSummary = NoPlan THEN s
  ELSE IF ~s.dynamicSummary.steps THEN updateSummary(s, "plan-nat", NoSummary)
  ELSE updateSummary(s, "plan-nat",
                     Rendered("plan-nat", s.dynamicSummary.country, 0, step))

dynamicPlanNat(s, step) ==
  stageSummary(setClusterColors(setNetworkFilter(s, StageUpTo(step)), TypeKey(step)),
               step)

\* prevStep() going round from the first step to the last
prevStepWraps(s) ==
  IF s.currentStep > 1
  THEN dynamicPlanNat([s EXCEPT !.currentStep = @ - 1, !.stepYear = @ - YearStep],
                      s.currentStep - 1)
  ELSE dynamicPlanNat([s EXCEPT !.currentStep = LastStep,
                                !.stepYear = @ + (LastStep - 1) * YearStep],
                      LastStep)

prevStep(s) ==
  IF s.currentStep > 1
  THEN dynamicPlanNat([s EXCEPT !.currentStep = @ - 1, !.stepYear = @ - YearStep],
                      s.currentStep - 1)
  ELSE s

\* nextStep() starting the sliders afresh
nextStepResetsParams(s) ==
  IF s.currentStep < LastStep
  THEN dynamicPlanNat([s EXCEPT !.currentStep = @ + 1, !.stepYear = @ + YearStep,
                                !.sliderParams = <<>>],
                      s.currentStep + 1)
  ELSE s

nextStep(s) ==
  IF s.currentStep < LastStep
  THEN dynamicPlanNat([s EXCEPT !.currentStep = @ + 1, !.stepYear = @ + YearStep],
                      s.currentStep + 1)
  ELSE s

(***************************************************************************)
(* showPlanNat, showPlanLoc, showFindNat: success callbacks of the runs    *)
(***************************************************************************)
\* data.summary as showPlanNat passes it on: the flat summary, or
\* summary[1] of a dynamic answer; a dynamic answer read as flat and a
\* flat answer read as dynamic have none of the summary's fields
planNatSummary(s, req) ==
  IF s.dynamic = req.dynamic
  THEN Rendered("plan-nat", req.country, 0, IF req.dynamic THEN 1 ELSE 0)
  ELSE NoSummary

\* the answer leaves the requests in flight
takeRun(s, req) == [s EXCEPT !.runs = @ (-) SetToBag({req})]

\* the first block of showPlanNat without the reset of currentStep
startPlaybackKeepsStep(s, req) ==
  IF s.dynamic
  THEN [show(s, "dynamic-box") EXCEPT
          !.dynamicSummary = [country |-> req.country, steps |-> req.dynamic],
          !.stepYear = FirstYear]
  ELSE hide(s, "dynamic-box")

startPlayback(s, req) ==
  IF s.dynamic
  THEN [show(s, "dynamic-box") EXCEPT
          !.dynamicSummary = [country |-> req.country, steps |-> req.dynamic],
          !.currentStep = 1,
          !.stepYear = FirstYear]
  ELSE hide(s, "dynamic-box")

addNetwork(s) ==
  [s EXCEPT !.network =
      [ exists |-> TRUE,
        filter |-> IF s.dynamic THEN StageIs(1) ELSE NoFilter,
        visible |-> IF @.exists THEN @.visible ELSE TRUE ]]

setClusterData(s, styling) ==
  [s EXCEPT !.clData = TRUE,
            !.clusters.fillColor = styling,
            !.clusters.lineColor = styling]

\* the end of a success callback, s with the answer's data in withData.
\* map.getSource('clusters') is undefined before addMapLayers: setData
\* throws and the callback ends there.  updateSummary may throw as well;
\* the loading modal is hidden when neither did.
finishRun(s, withData, state, summaryData) ==
  IF ~s.layersAdded THEN s
  ELSE IF updateSummaryThrows(summaryData)
  THEN updateSummary(withData, state, summaryData)
  ELSE [updateSummary(withData, state, summaryData) EXCEPT !.loading = FALSE]

showPlanNat(s, req) ==
  finishRun(addNetwork(startPlayback(takeRun(s, req), req)),
            setClusterData(addNetwork(startPlayback(takeRun(s, req), req)),
                           clusterStylingPlan),
            "plan-nat", planNatSummary(s, req))

showPlanLoc(s, req) ==
  finishRun(takeRun(s, req),
            [takeRun(s, req) EXCEPT !.bldData = [kind |-> "conn", of |-> req.bounds]],
            "plan-loc", Rendered("plan-loc", "", req.bounds, 0))

showFindNat(s, req) ==
  finishRun(takeRun(s, req),
            setClusterData(takeRun(s, req), clusterStylingFind),
            "find-nat", Rendered("find-nat", req.country, 0, 0))

(***************************************************************************)
(* clusterClick, prepPlanLoc, the footprint answer, resetAnnounce,         *)
(* zoomToNat                                                               *)
(***************************************************************************)
prepPlanLoc(s) ==
  restoreSummary(
    updateSliders(
      [hide([s EXCEPT !.clusters.opacity = "0.1"], "dynamic-box")
         EXCEPT !.announce = "clickBtn",
                !.clusters.popupOnHover = FALSE,
                !.zoomed = TRUE,
                !.overpass = @ (+) SetToBag({s.clusterBounds})],
      "plan-loc"),
    "plan-loc")

\* clusterClick() doing nothing in find mode
clusterClickPlanOnly(s, b) ==
  IF s.activeModel = "find" THEN s
  ELSE prepPlanLoc([s EXCEPT !.clusterBounds = b])

clusterClick(s, b) == prepPlanLoc([s EXCEPT !.clusterBounds = b])

\* the two comparisons with the threshold itself on the rejected side
tooManyFromThreshold(numBuildings) == numBuildings >= MaxBuildings
tooFewUpToThreshold(numBuildings) == numBuildings <= MinBuildings

tooManyBuildings(numBuildings) == numBuildings > MaxBuildings
tooFewBuildings(numBuildings) == numBuildings < MinBuildings

\* success callback of the footprint request made for cluster b.
\* passFullVillageGeojson is false: nothing is written to sliderParams.
overpassLoaded(s, b, numBuildings) ==
  IF tooManyBuildings(numBuildings)
  THEN [s EXCEPT !.overpass = @ (-) SetToBag({b}),
                 !.announce = "tooMany", !.runDisabled = TRUE,
                 !.timers = @ + 1]
  ELSE IF tooFewBuildings(numBuildings)
  THEN [s EXCEPT !.overpass = @ (-) SetToBag({b}),
                 !.announce = "tooFew", !.runDisabled = TRUE,
                 !.timers = @ + 1]
  ELSE [s EXCEPT !.overpass = @ (-) SetToBag({b}),
                 !.bldData = [kind |-> "osm", of |-> b],
                 !.runDisabled = FALSE]

\* the failed footprint request sent again
overpassFailedRetries(s, b) == s

\* $.get has no error callback
overpassFailed(s, b) == [s EXCEPT !.overpass = @ (-) SetToBag({b})]

resetAnnounce(s) == [s EXCEPT !.announce = "clickBtn", !.timers = @ - 1]

\* the national scenario of the active mode
natState(s) == IF s.activeModel = "plan" THEN "plan-nat" ELSE "find-nat"

zoomToNat(s) ==
  showDynamicBox(restoreSummary(
    updateSliders([s EXCEPT !.clusters.popupOnHover = TRUE,
                            !.clusters.opacity = "0.5",
                            !.announce = "clickMsg"],
                  natState(s)),
    natState(s)))

(***************************************************************************)
(* The mini-grid front end: a page of its own with a Leaflet map, a        *)
(* village selector, a table of parameter inputs and a table of results.   *)
(***************************************************************************)
\* villages of the list the service returns
Villages == {"villageA", "villageB"}
\* points of the map the user may click, <<lat, lng>> in 1e-5 degrees; the
\* first two differ by less than toFixed(4) keeps
ClickPoints == { <<-594000, 3450000>>, <<-593996, 3450004>>, <<-612347, 3512342>> }

\* Number.prototype.toFixed(4) of x / 10^5: the sign, the magnitude rounded
\* to four decimals, and always four digits after the point
toFixed4(x) ==
  (IF x < 0 THEN <<"-">> ELSE <<>>)
    \o IntToDigits((((IF x < 0 THEN -x ELSE x) + 5) \div 10) \div 10000)
    \o <<".">>
    \o Zeros(4 - Len(IntToDigits((((IF x < 0 THEN -x ELSE x) + 5) \div 10) % 10000)))
    \o IntToDigits((((IF x < 0 THEN -x ELSE x) + 5) \div 10) % 10000)

\* the rows addGenLocation inserts into #param-table: the name and the
\* value of the input of each
ParamInputs ==
  << [name |-> "min-area", value |-> <<"7", "0">>],
     [name |-> "demand", value |-> <<"6">>],
     [name |-> "tariff", value |-> <<"0", ".", "2">>],
     [name |-> "gen-cost", value |-> <<"1", "0", "0", "0">>],
     [name |-> "cost-wire", value |-> <<"1", "0">>],
     [name |-> "cost-connection", value |-> <<"1", "0", "0">>],
     [name |-> "opex-ratio", value |-> <<"1">>],
     [name |-> "years", value |-> <<"1", "0">>],
     [name |-> "discount-rate", value |-> <<"6">>],
     [name |-> "max-length", value |-> <<"1", "0", "0", "0", "0">>] >>

\* the same rows in static/mgo.js, whose inputs have other names
StaticParamInputs ==
  << [name |-> "minimum_area_m2", value |-> <<"7", "0">>],
     [name |-> "demand", value |-> <<"6">>],
     [name |-> "tariff", value |-> <<"0", ".", "2">>],
     [name |-> "gen_cost", value |-> <<"1", "0", "0", "0">>],
     [name |-> "cost_wire", value |-> <<"1", "0">>],
     [name |-> "cost_connection", value |-> <<"1", "0", "0">>],
     [name |-> "opex_ratio", value |-> <<"1">>],
     [name |-> "years", value |-> <<"1", "0">>],
     [name |-> "discount_rate", value |-> <<"6">>],
     [name |-> "max_tot_length", value |-> <<"1", "0", "0", "0", "0">>] >>

\* the two versions of the front end in the repository: the script of
\* mgo/static and the later one
Scripts == {"static", "later"}

\* the page as loaded: the globals as initialised (undefined is <<>>, 0 or
\* FALSE), the village list requested, nothing on the map but the basemap
MgoPage ==
  [ script |-> "later",
    villages |-> {}, listPending |-> TRUE, points |-> {},
    selected |-> "", view |-> "",
    chooseGen |-> "", paramHead |-> "",
    readyForGen |-> FALSE, hasGenLocation |-> FALSE,
    genLat |-> <<>>, genLng |-> <<>>, markers |-> <<>>,
    paramRows |-> <<>>, runControls |-> 0,
    requests |-> EmptyBag,
    resultsTable |-> FALSE, results |-> <<>>,
    networkLayer |-> 0, buildingsLayer |-> 0,
    mapNetworks |-> EmptyBag, mapBuildings |-> EmptyBag,
    \* not a variable of the page: the village shown when the stored
    \* generator location was clicked
    genVillage |-> "" ]

\* showVillage() with v the value of the selector
showVillage(m, v) ==
  [m EXCEPT !.selected = v, !.view = v,
            !.chooseGen = "Click desired generator location",
            !.readyForGen = TRUE]

\* addGenLocation(e) accepting every click after a village was shown
addGenLocationAgain(m, e) ==
  IF m.readyForGen
  THEN [m EXCEPT !.hasGenLocation = TRUE,
                 !.genLat = toFixed4(e[1]),
                 !.genLng = toFixed4(e[2]),
                 !.markers = Append(@, <<toFixed4(e[1]), toFixed4(e[2])>>),
                 !.chooseGen = "Generator site chosen",
                 !.paramHead = "Choose parameters",
                 !.paramRows = @ \o (IF m.script = "static" THEN StaticParamInputs
                                     ELSE ParamInputs),
                 !.runControls = 1]
  ELSE m

\* addGenLocation(e), the click handler of the map
addGenLocation(m, e) ==
  IF m.readyForGen /\ ~m.hasGenLocation
  THEN [m EXCEPT !.hasGenLocation = TRUE,
                 !.genLat = toFixed4(e[1]),
                 !.genLng = toFixed4(e[2]),
                 !.markers = Append(@, <<toFixed4(e[1]), toFixed4(e[2])>>),
                 !.chooseGen = "Generator site chosen",
                 !.paramHead = "Choose parameters",
                 !.paramRows = @ \o (IF m.script = "static" THEN StaticParamInputs
                                     ELSE ParamInputs),
                 !.runControls = 1]
  ELSE m

\* runModel() of the mini-grid front end: the /_run_model request with the
\* value of the selector, the stored generator and the value of the first
\* input of each name; id tells the requests apart. The script of
\* mgo/static sends each value as it is, under the name of its input.
mgoRunModel(m, id) ==
  LET val(n) ==
        m.paramRows[CHOOSE i \in 1..Len(m.paramRows) :
                      /\ m.paramRows[i].name = n
                      /\ \A j \in 1..(i - 1) : m.paramRows[j].name # n].value
      percent(n) == Norm(ParseNum(val(n)).m, ParseNum(val(n)).e - 2)
  IN  IF m.script = "static"
      THEN [m EXCEPT !.requests = @ (+) SetToBag({
        [ id |-> id, name |-> m.selected,
          gen_lat |-> m.genLat, gen_lng |-> m.genLng,
          minimum_area_m2 |-> val("minimum_area_m2"), demand |-> val("demand"),
          tariff |-> val("tariff"), gen_cost |-> val("gen_cost"),
          cost_wire |-> val("cost_wire"),
          cost_connection |-> val("cost_connection"),
          opex_ratio |-> val("opex_ratio"), years |-> val("years"),
          discount_rate |-> val("discount_rate"),
          max_tot_length |-> val("max_tot_length") ]})]
      ELSE
      [m EXCEPT !.requests = @ (+) SetToBag({
        [ id |-> id, name |-> m.selected,
          gen_lat |-> m.genLat, gen_lng |-> m.genLng,
          min_area |-> val("min-area"), demand |-> val("demand"),
          tariff |-> val("tariff"), gen_cost |-> val("gen-cost"),
          cost_wire |-> val("cost-wire"),
          cost_connection |-> val("cost-connection"),
          opex_ratio |-> percent("opex-ratio"), years |-> val("years"),
          discount_rate |-> percent("discount-rate"),
          max_length |-> val("max-length") ]})]

\* updateWithResults(data), data the answer to the request req: the seven
\* rows of the results and the two layers
updateWithResults(m, req) ==
  LET rowText == << "Houses connected", "Generator size", "Total wire length",
                    "Capex", "Annual opex", "Annual income", "NPV" >>
  IN
  [m EXCEPT !.paramHead = "Check your results",
            !.resultsTable = TRUE,
            !.results = (IF m.resultsTable THEN <<>> ELSE @)
                          \o [i \in 1..Len(rowText) |->
                                [label |-> rowText[i], run |-> req.id]],
            !.mapNetworks =
               (IF m.networkLayer # 0 \/ m.buildingsLayer # 0
                THEN @ (-) SetToBag({m.networkLayer}) ELSE @) (+) SetToBag({req.id}),
            !.mapBuildings =
               (IF m.networkLayer # 0 \/ m.buildingsLayer # 0
                THEN @ (-) SetToBag({m.buildingsLayer}) ELSE @) (+) SetToBag({req.id}),
            !.networkLayer = req.id,
            !.buildingsLayer = req.id]

(***************************************************************************)
(* Initial state: the module-level initialisers of index.js, the page as   *)
(* index.html delivers it, and init() with skipToCountry(), which reads    *)
(* the country from the URL and, when there is one, arms a timer.          *)
(***************************************************************************)
\* the landing panel is the one shown; the step box, the offline notice
\* and the loading modal are not; the year label reads the first year
InitDom ==
  /\ hidden = [el \in ElementIds |-> el # "landing"]
  /\ loading = FALSE
  /\ runDisabled = FALSE
  /\ announce = ""
  /\ stepYear = FirstYear
  /\ sliders = ""
  /\ labels = <<>>
  /\ summary = Blank
  /\ switchDynamic \in BOOLEAN

NoNetwork == [exists |-> FALSE, filter |-> NoFilter, visible |-> FALSE]

NoSnap == [mode |-> "", zoomed |-> FALSE, country |-> "", step |-> 0, box |-> FALSE]
Idle ==
  [ scen |-> "idle", n |-> 0, sw |-> FALSE, pre |-> NoSnap,
    name |-> "", value |-> <<Num(0), Num(0)>>, params |-> <<>> ]
Unused == [explores |-> 0, requests |-> 0, slides |-> 0, clicks |-> 0, mgoRuns |-> 0]

\* the page opened with any URL: the initialisers of the globals, the page
\* as delivered, the map without layers, and skipToCountry() reading the
\* country of the URL (null, or a country, which arms the timer)
InitPage ==
  /\ activeModel = "none"
  /\ zoomed = FALSE
  /\ currentStep = 1
  /\ dynamic = TRUE
  /\ dynamicSummary = NoPlan
  /\ sliderParams = <<>>
  /\ summaryHtml = [k \in StateKeys |-> Blank]
  /\ clusterBounds = 0
  /\ layersAdded = FALSE
  /\ InitDom
  /\ network = NoNetwork
  /\ clusters = NoLayers
  /\ clData = FALSE
  /\ bldData = NoBuildings
  /\ country \in {""} \cup Countries
  /\ skipTimer = (country # "")
  /\ loads = EmptyBag
  /\ runs = EmptyBag
  /\ overpass = EmptyBag
  /\ timers = 0
  /\ mgo \in {[MgoPage EXCEPT !.script = s] : s \in Scripts}
  /\ used = Unused
  /\ hist = Idle

\* the page opened without a country in the URL
Init == InitPage /\ country = "" /\ mgo = MgoPage
\* the mini-grid page opened, with either script
InitMgo == InitPage /\ country = ""

(***************************************************************************)
(* What the user can reach.  The loading modal has a static backdrop: no   *)
(* control is reachable while it is shown.  The map, the sidebars, the     *)
(* run control and the step box are parts of the explore panel, the        *)
(* country cards of the countries panel.                                   *)
(***************************************************************************)
Interactive == ~loading
InExplore == Interactive /\ ~hidden["explore"]
StepBoxShown == InExplore /\ ~hidden["dynamic-box"]

\* the ViewState of the specification, read off the program state
ViewState ==
  [ mode |-> activeModel, zoomed |-> zoomed, country |-> country,
    step |-> currentStep, box |-> ~hidden["dynamic-box"] ]

(***************************************************************************)
(* Actions: one per event handler, callback or timer.                      *)
(***************************************************************************)
Home == Interactive /\ Set(home(Cur)) /\ hist' = Idle /\ UNCHANGED used
About == Interactive /\ Set(about(Cur)) /\ hist' = Idle /\ UNCHANGED used
Plan == Interactive /\ Set(plan(Cur)) /\ hist' = Idle /\ UNCHANGED used
Find == Interactive /\ Set(find(Cur)) /\ hist' = Idle /\ UNCHANGED used
ChooseCountry ==
  Interactive /\ Set(chooseCountry(Cur)) /\ hist' = Idle /\ UNCHANGED used

Explore(c) ==
  /\ Interactive /\ ~hidden["countries"]
  /\ used.explores < MaxExplores
  /\ Set(explore(Cur, c))
  /\ used' = [used EXCEPT !.explores = @ + 1]
  /\ hist' = Idle

SkipToCountry ==
  /\ skipTimer
  /\ Set(skipToCountry(Cur))
  /\ hist' = Idle /\ UNCHANGED used

GridLoaded(c) ==
  /\ BagIn(GridReq(c), loads)
  /\ Set(gridLoaded(Cur, c))
  /\ hist' = Idle /\ UNCHANGED used

ClustersLoaded(c) ==
  /\ BagIn(ClustersReq(c), loads)
  /\ Set(clustersLoaded(Cur, c))
  /\ hist' = Idle /\ UNCHANGED used

LoadFailed(req) ==
  /\ BagIn(req, loads)
  /\ Set(loadFailed(Cur, req))
  /\ hist' = Idle /\ UNCHANGED used

ToggleDynamic ==
  /\ InExplore
  /\ Set([Cur EXCEPT !.switchDynamic = ~@])
  /\ hist' = Idle /\ UNCHANGED used

RunModel ==
  /\ InExplore /\ ~runDisabled
  /\ used.requests < MaxRequests
  /\ Set(runModel(Cur))
  /\ used' = [used EXCEPT !.requests = @ + 1]
  /\ hist' = IF runs = EmptyBag
             THEN [Idle EXCEPT !.scen = "requested", !.sw = switchDynamic,
                               !.pre = ViewState]
             ELSE Idle

ShowPlanNat(req) ==
  /\ BagIn(req, runs) /\ req.scen = "plan-nat"
  /\ Set(showPlanNat(Cur, req))
  /\ hist' = IF hist.scen = "requested"
             THEN [hist EXCEPT !.scen = "completed", !.n = 1] ELSE Idle
  /\ UNCHANGED used

ShowPlanLoc(req) ==
  /\ BagIn(req, runs) /\ req.scen = "plan-loc"
  /\ Set(showPlanLoc(Cur, req))
  /\ hist' = Idle /\ UNCHANGED used

ShowFindNat(req) ==
  /\ BagIn(req, runs) /\ req.scen = "find-nat"
  /\ Set(showFindNat(Cur, req))
  /\ hist' = Idle /\ UNCHANGED used

RunFailed(req) ==
  /\ BagIn(req, runs)
  /\ Set(runFailed(Cur, req))
  /\ hist' = Idle /\ UNCHANGED used

PrevStep ==
  /\ StepBoxShown
  /\ Set(prevStep(Cur))
  /\ hist' = Idle /\ UNCHANGED used

NextStep ==
  /\ StepBoxShown
  /\ Set(nextStep(Cur))
  /\ hist' = IF hist.scen = "completed" /\ hist.n < LastStep
             THEN [hist EXCEPT !.n = @ + 1] ELSE Idle
  /\ UNCHANGED used

ClusterClick(b) ==
  /\ InExplore /\ layersAdded /\ clData
  /\ used.requests < MaxRequests
  /\ Set(clusterClick(Cur, b))
  /\ used' = [used EXCEPT !.requests = @ + 1]
  /\ hist' = [Idle EXCEPT !.scen = "clicked", !.pre = ViewState]

\* the counts an answer may carry: around the two thresholds
FootprintCounts ==
  {0, MinBuildings - 1, MinBuildings, MaxBuildings - 1, MaxBuildings,
   MaxBuildings + 1}

OverpassLoaded(b, numBuildings) ==
  /\ BagIn(b, overpass)
  /\ Set(overpassLoaded(Cur, b, numBuildings))
  /\ hist' = IF hist.scen = "clicked"
             THEN [hist EXCEPT !.scen = "answered", !.n = numBuildings]
             ELSE [Idle EXCEPT !.scen = "answered", !.n = numBuildings]
  /\ UNCHANGED used

OverpassFailed(b) ==
  /\ BagIn(b, overpass)
  /\ Set(overpassFailed(Cur, b))
  /\ hist' = [Idle EXCEPT !.scen = "failed"]
  /\ UNCHANGED used

ResetAnnounce ==
  /\ timers > 0
  /\ Set(resetAnnounce(Cur))
  /\ hist' = Idle /\ UNCHANGED used

ZoomToNat ==
  /\ InExplore /\ announce = "clickBtn"
  /\ Set(zoomToNat(Cur))
  /\ hist' = IF hist.scen = "answered" /\ hist.pre # NoSnap
             THEN [hist EXCEPT !.scen = "zoomedOut"]
             ELSE IF hist.scen = "failed"
             THEN [hist EXCEPT !.scen = "escaped"]
             ELSE Idle
  /\ UNCHANGED used

\* the values a slide event of the slider may carry: a number for a single
\* slider, <<from, to>> with from <= to for a range slider
SliderTicks(cfg) ==
  { t \in { DecAdd(ParseNum(cfg.min), DecMul(k, ParseNum(cfg.step))) :
              k \in SlideSteps } :
      DecLe(t, ParseNum(cfg.max)) } \cup {ParseNum(cfg.max)}

\* the table by state key and parameter name
SlideValuesOf ==
  [ state \in StateKeys |->
      [ name \in ConfigNamesOf[state] |->
          IF ConfigByName[state][name].type = "range"
          THEN { v \in SliderTicks(ConfigByName[state][name])
                         \X SliderTicks(ConfigByName[state][name]) :
                   DecLe(v[1], v[2]) }
          ELSE SliderTicks(ConfigByName[state][name]) ] ]

Slide(name, value) ==
  /\ InExplore
  /\ used.slides < MaxSlides
  /\ Set(onSlide(Cur, sliders, name, value))
  /\ used' = [used EXCEPT !.slides = @ + 1]
  /\ hist' = [Idle EXCEPT !.scen = "slid", !.name = name,
                          !.value = IF ConfigByName[sliders][name].type = "range"
                                    THEN value ELSE <<value, value>>,
                          !.params = ParamsOf(Cur, sliders)]

(***************************************************************************)
(* The product of navigation, stepping, zooming, running and sliding is    *)
(* beyond exhaustive search; each specification is the program under the   *)
(* inputs of one workflow, with the choice of mode and country and the     *)
(* geometry loads in all.                                                  *)
(***************************************************************************)
Modes ==
  \/ Plan \/ Find \/ ChooseCountry
  \/ \E c \in Countries : Explore(c)

Navigate == Modes \/ Home \/ About

Loaded == \E c \in Countries : GridLoaded(c) \/ ClustersLoaded(c)

Load ==
  \/ Loaded
  \/ \E c \in Countries : LoadFailed(GridReq(c)) \/ LoadFailed(ClustersReq(c))

Run ==
  \/ RunModel
  \/ \E req \in BagToSet(runs) :
        ShowPlanNat(req) \/ ShowFindNat(req) \/ RunFailed(req)

RunLocal == \E req \in BagToSet(runs) : ShowPlanLoc(req)

Step == ToggleDynamic \/ PrevStep \/ NextStep

Zoom ==
  \/ \E b \in 1..NumClusters : ClusterClick(b)
  \/ \E b \in 1..NumClusters : \E n \in FootprintCounts : OverpassLoaded(b, n)
  \/ \E b \in 1..NumClusters : OverpassFailed(b)
  \/ ResetAnnounce
  \/ ZoomToNat

SlideAny ==
  /\ sliders # ""
  /\ \E name \in ConfigNamesOf[sliders] :
        \E value \in SlideValuesOf[sliders][name] : Slide(name, value)

\* national runs and dynamic playback
Next == Navigate \/ Load \/ Run \/ Step
Spec == Init /\ [][Next]_vars

\* the zoom workflow with the runs, national and local
SpecZoom == Init /\ [][Modes \/ Load \/ Zoom \/ Run \/ RunLocal]_vars

\* the sliders of the national scenarios, the geometry loads succeeding
SpecSliders == Init /\ [][Modes \/ Loaded \/ SlideAny]_vars

\* the sliders of the three scenarios with the run control: a cluster is
\* entered and left, one slider is moved, runs are requested
ZoomIn == ZoomToNat \/ \E b \in 1..NumClusters : ClusterClick(b)
SlideOnce == used.slides = 0 /\ SlideAny
SpecTune == Init /\ [][Modes \/ Loaded \/ ZoomIn \/ SlideOnce \/ RunModel]_vars

\* the page opened with a country in the URL, runs, and another country
\* chosen afterwards
InitUrl == InitPage /\ country # "" /\ mgo = MgoPage
SpecSwitch == InitUrl /\ [][Modes \/ Loaded \/ SkipToCountry \/ Run]_vars

\* hideClusters() by itself, on the map of find mode with the clusters
\* layers added and a find-nat store in which each of the five ranges is
\* stored with its default, stored as the empty string, or absent
InitFilter ==
  /\ InitDom
  /\ activeModel = "find" /\ zoomed = FALSE
  /\ currentStep = 1 /\ dynamic = TRUE /\ dynamicSummary = NoPlan
  /\ country = "" /\ skipTimer = FALSE
  /\ \E D \in SUBSET {RangeName(FilterParams[i]) : i \in 1..Len(FilterParams)} :
       \E E \in SUBSET D :
         sliderParams =
           ("find-nat" :> [n \in D |-> IF n \in E THEN <<>>
                                      ELSE ConfigByName["find-nat"][n].default])
  /\ summaryHtml = [k \in StateKeys |-> Blank]
  /\ clusterBounds = 0 /\ layersAdded = TRUE
  /\ network = NoNetwork
  /\ clusters = [ fillColor |-> clusterStylingFind, lineColor |-> clusterStylingFind,
                  filter |-> NoFilter, outlineFilter |-> NoFilter,
                  opacity |-> "0.5", popupOnHover |-> TRUE ]
  /\ clData = FALSE /\ bldData = NoBuildings
  /\ loads = EmptyBag /\ runs = EmptyBag /\ overpass = EmptyBag
  /\ timers = 0
  /\ mgo = MgoPage
  /\ used = Unused
  /\ hist = Idle

HideClusters ==
  /\ hist.scen = "idle"
  /\ Set(hideClusters(Cur))
  /\ hist' = [Idle EXCEPT !.scen = "filtered", !.params = ParamsOf(Cur, "find-nat")]
  /\ UNCHANGED used

SpecFilter == InitFilter /\ [][HideClusters]_vars

\* the success callback of runModel() in the script of mgo/static: seven
\* more rows and two more layers; the variables of the results are local
runModelSuccess(m, req) ==
  LET rowText == << "Houses connected", "Generator size", "Total wire length",
                    "Capex", "Annual opex", "Annual income", "NPV" >>
  IN
  [m EXCEPT !.paramHead = "Check your results",
            !.results = @ \o [i \in 1..Len(rowText) |->
                                [label |-> rowText[i], run |-> req.id]],
            !.mapNetworks = @ (+) SetToBag({req.id}),
            !.mapBuildings = @ (+) SetToBag({req.id})]

(***************************************************************************)
(* Events of the mini-grid front end.                                      *)
(***************************************************************************)
SetMgo(m) == mgo' = m /\ UNCHANGED progVars /\ hist' = Idle

\* the village list arrives: the options of the selector and addPoints
VillageListLoaded ==
  /\ mgo.listPending
  /\ SetMgo([mgo EXCEPT !.villages = Villages, !.listPending = FALSE,
                        !.points = @ \cup Villages])
  /\ UNCHANGED used

\* the user selects village v
ShowVillage(v) ==
  /\ v \in mgo.villages
  /\ SetMgo(showVillage(mgo, v))
  /\ UNCHANGED used

\* the user clicks the map at e
MapClick(e) ==
  /\ used.clicks < MaxClicks
  /\ mgo' = [addGenLocation(mgo, e) EXCEPT
               !.genVillage = IF mgo.readyForGen /\ ~mgo.hasGenLocation
                              THEN mgo.view ELSE @]
  /\ UNCHANGED progVars
  /\ hist' = [Idle EXCEPT !.scen = "mapClicked", !.pre = mgo, !.value = e]
  /\ used' = [used EXCEPT !.clicks = @ + 1]

\* the user clicks the run control
MgoRun ==
  /\ mgo.runControls > 0
  /\ used.mgoRuns < MaxMgoRuns
  /\ SetMgo(mgoRunModel(mgo, used.mgoRuns + 1))
  /\ used' = [used EXCEPT !.mgoRuns = @ + 1]

\* the answer to a run request arrives
ResultsLoaded(id) ==
  /\ \E req \in BagToSet(mgo.requests) :
       /\ req.id = id
       /\ mgo' = (IF mgo.script = "static"
                  THEN runModelSuccess([mgo EXCEPT !.requests = @ (-) SetToBag({req})], req)
                  ELSE updateWithResults([mgo EXCEPT !.requests = @ (-) SetToBag({req})], req))
       /\ hist' = [Idle EXCEPT !.scen = "resultsShown", !.n = id, !.pre = mgo]
  /\ UNCHANGED progVars
  /\ UNCHANGED used

\* a run request fails: there is no error callback
MgoRunFailed(id) ==
  /\ \E req \in BagToSet(mgo.requests) :
       /\ req.id = id
       /\ SetMgo([mgo EXCEPT !.requests = @ (-) SetToBag({req})])
  /\ UNCHANGED used

SpecMgo ==
  InitMgo /\ [][ \/ VillageListLoaded
                 \/ \E v \in Villages : ShowVillage(v)
                 \/ \E e \in ClickPoints : MapClick(e)
                 \/ MgoRun
                 \/ \E id \in 1..MaxMgoRuns : ResultsLoaded(id)
                 \/ \E id \in 1..MaxMgoRuns : MgoRunFailed(id) ]_vars

\* the stage tags of the network features of a dynamic plan: the step at
\* which a feature becomes part of the plan
Stages == 1..LastStep

\* the stages the filter of the network layer admits: all of them without a
\* filter, else those that meet the comparison of the 'stage' property
NetworkStages(filter) ==
  IF filter = NoFilter THEN Stages
  ELSE { g \in Stages : IF filter[1] = "<=" THEN g <= filter[3] ELSE g = filter[3] }

(***************************************************************************)
(* Properties.                                                             *)
(***************************************************************************)
\* the outcomes of a footprint answer
LocalReady == ~runDisabled /\ bldData.kind = "osm"
RejectedTooFew == runDisabled /\ announce = "tooFew" /\ timers > 0
RejectedTooMany == runDisabled /\ announce = "tooMany" /\ timers > 0

\* C1: from a national-scope state with the explore panel shown, a cluster
\* click, an accepted footprint answer and a zoom-out end in the ViewState
\* before the click: same mode, zoomed false again, same country, same
\* step, the step box visible exactly if it was visible before.
C1_ZoomOutRestoresViewState ==
  ( /\ hist.scen = "zoomedOut"
    /\ ~hist.pre.zoomed
    /\ hist.n >= MinBuildings /\ hist.n <= MaxBuildings )
  => ViewState = hist.pre

\* a zoom-out after an accepted answer, in plan mode
C1_ZoomedOutReached ==
  /\ hist.scen = "zoomedOut"
  /\ ~hist.pre.zoomed
  /\ hist.n = MinBuildings
  /\ hist.pre.mode = "plan"
  /\ announce = "clickMsg"

\* C2: in every reachable state at most one of the panels landing, explore,
\* about and countries is visible, whatever the sequence of home, about,
\* chooseCountry, plan, find and explore, with or without a country selected.
C2_AtMostOnePanel == Cardinality({p \in PanelIds : ~hidden[p]}) <= 1

\* plan() with and without a country has run: find() sent the user to the
\* country list, and a country is explored in plan mode
C2_PlanWithCountry ==
  /\ activeModel = "plan"
  /\ country # ""
  /\ ~hidden["explore"]
  /\ hidden["countries"] /\ hidden["landing"] /\ hidden["about"]

\* C3: the step stays in 1..4; prevStep at step 1 and nextStep at step 4
\* change nothing, and otherwise each changes the step by exactly one.
C3_StepInRange ==
  [][ /\ currentStep \in 1..LastStep
      /\ currentStep' \in 1..LastStep
      /\ (PrevStep /\ currentStep = 1) => UNCHANGED progVars
      /\ (NextStep /\ currentStep = LastStep) => UNCHANGED progVars
      /\ (PrevStep /\ currentStep > 1) => currentStep' = currentStep - 1
      /\ (NextStep /\ currentStep < LastStep) => currentStep' = currentStep + 1
    ]_vars

\* the last step, reached by nextStep, with the step box still shown: the
\* states where nextStep and prevStep meet their guards
C3_LastStepReached ==
  /\ currentStep = LastStep
  /\ stepYear = FirstYear + (LastStep - 1) * YearStep
  /\ StepBoxShown

\* C4: the classification of a footprint answer is exact at its
\* boundaries: 4 elements are rejected as too few, 5 and 2000 are accepted
\* (LocalReady), 2001 are rejected as too many.
C4_BoundaryCounts ==
  hist.scen = "answered" =>
    /\ hist.n = 4 => RejectedTooFew
    /\ hist.n = 5 => LocalReady
    /\ hist.n = 2000 => LocalReady
    /\ hist.n = 2001 => RejectedTooMany

\* an answer with 4 elements has been rejected
C4_FourRejected ==
  hist.scen = "answered" /\ hist.n = 4 /\ announce = "tooFew" /\ runDisabled

\* C5 as stated: an answer with count c leads to LocalReady if and only if
\* 5 <= c < 2000; every c >= 2000 is rejected as too many and every c < 5
\* as too few.
C5_HalfOpenWindow ==
  hist.scen = "answered" =>
    /\ LocalReady <=> (5 <= hist.n /\ hist.n < 2000)
    /\ hist.n >= 2000 => RejectedTooMany
    /\ hist.n < 5 => RejectedTooFew

\* C5 as amended: an answer with count c leads to LocalReady if and only if
\* 5 <= c <= 2000; every c > 2000 is rejected as too many and every c < 5
\* as too few.
C5_ClosedWindow ==
  hist.scen = "answered" =>
    /\ LocalReady <=> (5 <= hist.n /\ hist.n <= 2000)
    /\ hist.n > 2000 => RejectedTooMany
    /\ hist.n < 5 => RejectedTooFew

\* an answer with 2000 elements has been accepted
C5_TwoThousandAccepted ==
  hist.scen = "answered" /\ hist.n = 2000 /\ LocalReady /\ zoomed

\* a plan-national run requested with the dynamic switch on, with no other
\* run in flight, has completed, and hist.n - 1 nextStep calls have followed
DynamicRunCompleted ==
  /\ hist.scen = "completed"
  /\ hist.pre.mode = "plan" /\ ~hist.pre.zoomed
  /\ hist.sw

\* dynamic playback shows step n of the plan of country c
DynamicPlaybackAt(n, c) ==
  /\ dynamic
  /\ ~hidden["dynamic-box"]
  /\ currentStep = n
  /\ stepYear = FirstYear + (n - 1) * YearStep
  /\ summary = Rendered("plan-nat", c, 0, n)

\* C6 as stated: after selecting "kenya", entering plan mode and completing
\* a plan-national run with the dynamic switch on, the step box is shown at
\* step 1 with year 2025, and three nextStep calls give the years 2030,
\* 2035, 2040 with the summary of the step.
C6_KenyaDynamic ==
  (DynamicRunCompleted /\ hist.pre.country = "kenya")
  => DynamicPlaybackAt(hist.n, "kenya")

\* C6 as amended: the same for every country that is not in
\* disabledDynamic.
C6_DynamicPlayback ==
  (DynamicRunCompleted /\ hist.pre.country \notin disabledDynamic)
  => DynamicPlaybackAt(hist.n, hist.pre.country)

\* three nextStep calls after the run for ghana: year 2040, summary of step 4
C6_GhanaLastStep ==
  /\ DynamicRunCompleted
  /\ hist.pre.country = "ghana"
  /\ hist.n = 4
  /\ stepYear = 2040
  /\ summary = Rendered("plan-nat", "ghana", 0, 4)

\* C7 as stated: no reachable state has zoomed true while the mode is find.
C7_NoLocalInFind == ~(zoomed /\ activeModel = "find")

\* a step that is a click on a cluster
ClusterClickStep == \E b \in 1..NumClusters : ClusterClick(b)

\* C7 as amended: local scope is entered by a cluster click only, and a
\* cluster click enters the zoom workflow in find mode as in plan mode: it
\* sets zoomed, keeps the mode and requests the footprints.
C7_ClickEntersLocal ==
  [][ /\ (~zoomed /\ zoomed') => ClusterClickStep
      /\ ClusterClickStep =>
           /\ zoomed'
           /\ activeModel' = activeModel
           /\ BagCardinality(overpass') = BagCardinality(overpass) + 1
    ]_vars

\* local scope in find mode
C7_LocalInFind ==
  /\ zoomed /\ activeModel = "find"
  /\ sliders = "plan-loc"
  /\ overpass # EmptyBag

\* C8: at most one model-run request is in flight at any time, under every
\* interleaving of run requests with the callbacks of the geometry loads.
C8_OneRunInFlight == BagCardinality(runs) <= 1

\* C9: the filter built from the five range parameters of find-nat is
\* exactly ten inclusive clauses, >= lo and <= hi of each parameter, in the
\* order pop, grid, ntl, gdp, travel; it is what both layers carry.
C9_TenClausesInOrder ==
  clusters.filter # NoFilter =>
    LET order  == <<"pop", "grid", "ntl", "gdp", "travel">>
        ranges == <<"pop-range", "grid-range", "ntl-range", "gdp-range",
                    "travel-range">>
        params == sliderParams["find-nat"]
    IN  /\ Len(clusters.filter) = 10
        /\ \A i \in 1..5 :
             /\ clusters.filter[2 * i - 1]
                  = <<">=", order[i], ParseRange(params[ranges[i]])[1]>>
             /\ clusters.filter[2 * i]
                  = <<"<=", order[i], ParseRange(params[ranges[i]])[2]>>
        /\ clusters.outlineFilter = clusters.filter

\* a filter built after two range parameters were changed
C9_FilterBuilt ==
  /\ clusters.filter # NoFilter
  /\ clusters.filter[3] = <<">=", "grid", Num(1)>>
  /\ clusters.filter[6] = <<"<=", "ntl", Unbounded>>
  /\ clusters.filter[5] # <<">=", "ntl", Num(0)>>

\* position of the range parameter in the filter, 0 for another parameter
RangeIndex(name) ==
  IF \E i \in 1..Len(FilterParams) : RangeName(FilterParams[i]) = name
  THEN CHOOSE i \in 1..Len(FilterParams) : RangeName(FilterParams[i]) = name
  ELSE 0

\* C10: in find mode a slide of one range slider re-applies the filter on
\* the clusters and clusters-outline layers at once: the two clauses of the
\* parameter carry the new bounds (the upper one unbounded when the handle
\* is at the slider's max), the other eight are those built before.
C10_SlideRefilters ==
  (hist.scen = "slid" /\ sliders = "find-nat" /\ layersAdded) =>
    LET i      == RangeIndex(hist.name)
        attr   == FilterParams[i]
        lo     == hist.value[1]
        hi     == IF hist.value[2] = ParseNum(ConfigByName["find-nat"][hist.name].max)
                  THEN Unbounded ELSE hist.value[2]
        before == hiddenFilters(hist.params)
    IN  /\ Len(clusters.filter) = 10
        /\ clusters.filter[2 * i - 1] = <<">=", attr, lo>>
        /\ clusters.filter[2 * i] = <<"<=", attr, hi>>
        /\ \A j \in 1..10 \ {2 * i - 1, 2 * i} : clusters.filter[j] = before[j]
        /\ clusters.outlineFilter = clusters.filter

\* pop-range slid to [100, 5000] after another parameter was changed
C10_PopSlid ==
  /\ hist.scen = "slid" /\ hist.name = "pop-range"
  /\ hist.value = <<Num(100), Num(5000)>>
  /\ hist.params # [n \in ConfigNamesOf["find-nat"] |-> ConfigByName["find-nat"][n].default]
  /\ clusters.filter[1] = <<">=", "pop", Num(100)>>
  /\ clusters.filter[2] = <<"<=", "pop", Num(5000)>>

\* the stored range parameters: scenario key and name
StoredRanges ==
  { p \in StateKeys \X UNION { ConfigNamesOf[k] : k \in StateKeys } :
      /\ p[1] \in DOMAIN sliderParams
      /\ p[2] \in ConfigNamesOf[p[1]] \cap DOMAIN sliderParams[p[1]]
      /\ ConfigByName[p[1]][p[2]].type = "range" }

\* C11: every stored range parameter [lo, hi] has lo <= hi, from the
\* default through every slide and every re-render of the sliders.
C11_RangesOrdered ==
  \A p \in StoredRanges :
     DecLe(ParseRange(sliderParams[p[1]][p[2]])[1],
           ParseRange(sliderParams[p[1]][p[2]])[2])

\* two ranges changed by slides, one of them to lo = hi below the max
C11_TwoRangesSlid ==
  /\ "find-nat" \in DOMAIN sliderParams
  /\ ParseRange(sliderParams["find-nat"]["pop-range"]) = <<Num(100), Num(100)>>
  /\ ParseRange(sliderParams["find-nat"]["gdp-range"])[2] = Unbounded

\* the text after " - " in the value label of a range slider
UpperText(label) == SubSeq(label, IndexOf(label, "-") + 2, Len(label))

\* C12: a slide of a range slider with the upper handle at the slider's
\* max stores the sentinel 1e19 as hi and shows the infinity sign; with the
\* upper handle below max it stores and shows the handle's value.
C12_SentinelAtMax ==
  (hist.scen = "slid" /\ ConfigByName[sliders][hist.name].type = "range") =>
    IF hist.value[2] = ParseNum(ConfigByName[sliders][hist.name].max)
    THEN /\ ParseRange(sliderParams[sliders][hist.name])
              = <<hist.value[1], [m |-> 1, e |-> 19]>>
         /\ UpperText(labels[hist.name]) = Infinity
    ELSE /\ ParseRange(sliderParams[sliders][hist.name]) = hist.value
         /\ UpperText(labels[hist.name]) # Infinity
         /\ ParseNum(UpperText(labels[hist.name])) = hist.value[2]

\* the upper handle of travel-range at its max of 20, the lower at 1
C12_TravelAtMax ==
  /\ hist.scen = "slid" /\ hist.name = "travel-range"
  /\ hist.value = <<Num(1), Num(20)>>
  /\ labels["travel-range"] = <<"1", " ", "-", " ", "inf">>

\* C13: updateSliders fills a parameter that has no value with its
\* default, changes no value that is stored (a stored 0 included), leaves
\* the other scenarios alone, and a second call changes nothing more.
C13_InitIdempotent ==
  \A k \in StateKeys :
     /\ \A n \in DOMAIN ParamsOf(Cur, k) :
           updateSliders(Cur, k).sliderParams[k][n] = sliderParams[k][n]
     /\ \A n \in ConfigNamesOf[k] \ DOMAIN ParamsOf(Cur, k) :
           updateSliders(Cur, k).sliderParams[k][n] = ConfigByName[k][n].default
     /\ \A j \in DOMAIN sliderParams \ {k} :
           updateSliders(Cur, k).sliderParams[j] = sliderParams[j]
     /\ updateSliders(updateSliders(Cur, k), k).sliderParams
           = updateSliders(Cur, k).sliderParams

\* grid-dist was set to the slider's minimum 0 in plan mode and the
\* sliders of find mode were rendered afterwards
C13_ZeroKept ==
  /\ sliders = "find-nat"
  /\ "plan-nat" \in DOMAIN sliderParams
  /\ sliderParams["plan-nat"]["grid-dist"] = <<"0">>
  /\ sliderParams["find-nat"]["pop-range"] # ConfigByName["find-nat"]["pop-range"].default

\* C14: the cache read for a key that no run has populated gives the empty
\* snapshot: entering plan mode, find mode or local scope before any run
\* of the scenario shows a blank summary, whatever was shown before.
C14_BlankBeforeRun ==
  [][ /\ (Plan /\ summaryHtml["plan-nat"] = Blank) => summary' = Blank
      /\ (Find /\ summaryHtml["find-nat"] = Blank) => summary' = Blank
      /\ (ClusterClickStep /\ summaryHtml["plan-loc"] = Blank) => summary' = Blank
    ]_vars

\* find mode entered after a plan run and before any find run: the pane
\* that showed the plan summary is blank
C14_BlankAfterPlanRun ==
  /\ activeModel = "find" /\ ~zoomed /\ ~hidden["explore"]
  /\ summaryHtml["plan-nat"] # Blank
  /\ summaryHtml["find-nat"] = Blank
  /\ summary = Blank

\* C15: every failing request (a geometry load, a model run of any of the
\* three scenarios, the footprint fetch) leaves the offline notice visible
\* and the loading indicator hidden.
C15_FailureShowsOffline ==
  [][ ( \/ \E c \in Countries : LoadFailed(GridReq(c)) \/ LoadFailed(ClustersReq(c))
        \/ \E req \in BagToSet(runs) : RunFailed(req)
        \/ \E b \in 1..NumClusters : OverpassFailed(b) )
      => (~hidden'["server-offline"] /\ ~loading')
    ]_vars

\* C16: no cluster click is processed while the zoom workflow is in
\* PendingBuildingData (a footprint request in flight) or in LocalReady
\* (footprints accepted, the zoom-out control still offered): a click is
\* taken only after the workflow is back at national scope.
C16_NoClickWhileZoomedIn ==
  [][ ClusterClickStep =>
        ~( \/ overpass # EmptyBag
           \/ (LocalReady /\ announce = "clickBtn") )
    ]_vars

\* the step is the slide event that the scenario tracker recorded
SlideTaken ==
  /\ used'.slides # used.slides
  /\ Slide(hist'.name, IF ConfigByName[sliders][hist'.name].type = "range"
                       THEN hist'.value ELSE hist'.value[1])

\* C17: a slider change in plan-nat, plan-loc or find-nat sends nothing: the
\* model-run requests, the geometry loads and the footprint requests in
\* flight are the same after it; a model-run request is added only by
\* the run action.
C17_SlidesSendNothing ==
  [][ /\ SlideTaken => (runs' = runs /\ loads' = loads /\ overpass' = overpass)
      /\ (\E r \in BagToSet(runs') : CopiesIn(r, runs') > CopiesIn(r, runs))
           => RunModel
    ]_vars

\* a slider of the local scenario has been moved to a new value, and no
\* run has been requested
C17_LocalSliderMoved ==
  /\ hist.scen = "slid"
  /\ sliders = "plan-loc" /\ zoomed
  /\ ParamsOf(Cur, "plan-loc") # hist.params
  /\ runs = EmptyBag

\* C18: the cached snapshot of a scenario key is never the partial markup;
\* it changes only in a step where a run of that key completes or, for the
\* plan key, after a dynamic run has completed; and it does not change in
\* a step during which a run of that key stays in flight, so that a read
\* made while the run is in flight gives the snapshot stored before the
\* request.
C18_SnapshotStableInFlight ==
  [][ \A k \in StateKeys :
        /\ summaryHtml'[k] # Partial
        /\ summaryHtml'[k] # summaryHtml[k] =>
              \/ \E req \in BagToSet(runs) :
                    req.scen = k /\ CopiesIn(req, runs') < CopiesIn(req, runs)
              \/ k = "plan-nat" /\ dynamicSummary # NoPlan
        /\ (\E req \in BagToSet(runs) : req.scen = k /\ BagIn(req, runs'))
              => summaryHtml'[k] = summaryHtml[k]
    ]_vars

\* C19: selecting a country changes no entry of the cache of summaries; an
\* entry changes only in the step where a run of its key completes; plan
\* and find show the entry of their key as it is, so after a change of
\* country they show the snapshot of the country before.
C19_CountryKeepsSnapshots ==
  [][ /\ ((\E c \in Countries : Explore(c)) \/ SkipToCountry)
           => summaryHtml' = summaryHtml
      /\ \A k \in StateKeys :
            summaryHtml'[k] # summaryHtml[k] =>
              \E req \in BagToSet(runs) :
                 req.scen = k /\ CopiesIn(req, runs') < CopiesIn(req, runs)
      /\ Plan => summary' = summaryHtml["plan-nat"]
      /\ Find => summary' = summaryHtml["find-nat"]
    ]_vars

\* another country has been chosen and loaded after a run: the explore
\* panel of the new country shows the summary of the run for the old one
C19_OldSnapshotShown ==
  /\ ~hidden["explore"] /\ ~loading /\ clData /\ loads = EmptyBag
  /\ country # ""
  /\ summaryHtml[natState(Cur)] # Blank
  /\ summaryHtml[natState(Cur)].country # country
  /\ summary = summaryHtml[natState(Cur)]

\* C20: the geometry of a country is requested at most once: choosing a
\* country whose grid and clusters were loaded before (it is the current
\* country, its clusters are on the map, no load is in flight) sends no
\* geometry request.
C20_GeometryOncePerCountry ==
  [][ \A c \in Countries :
        (country = c /\ clData /\ loads = EmptyBag /\ Explore(c))
          => loads' = loads
    ]_vars

\* C21: when the display interval of a count rejection elapses, with no
\* other rejection still displayed, the rejection message is cleared and
\* the run control, enabled before the cluster click, is enabled again.
C21_RejectionClears ==
  [][ (ResetAnnounce /\ timers = 1)
        => (announce' = "clickBtn" /\ ~runDisabled')
    ]_vars

C23_NoStepBoxForDenied ==
  country \in disabledDynamic => ~(~hidden["explore"] /\ ~hidden["dynamic-box"])

\* C24: prevStep, nextStep and the rendering of the step they call leave
\* sliderParams, the parameter values of every scenario key, as they were.
C24_StepsKeepParams ==
  [][ (PrevStep \/ NextStep) => sliderParams' = sliderParams ]_vars

\* the third step of a playback is rendered, two nextStep calls after the
\* run, with the parameters of the plan scenario in the store
C24_ThirdStepRendered ==
  /\ hist.scen = "completed" /\ hist.n = 3
  /\ currentStep = 3
  /\ summary.step = 3
  /\ "plan-nat" \in DOMAIN sliderParams
  /\ sliderParams["plan-nat"] # <<>>

\* C25: with a country selected, plan() and find() are idempotent and send
\* nothing: called in any reachable state, a second call changes no part
\* of the program state (mode, scope, panels, sliders, summary, layer
\* styling), and neither call changes the requests in flight.
C25_EnterModeIdempotent ==
  country # "" =>
    /\ plan(plan(Cur)) = plan(Cur)
    /\ find(find(Cur)) = find(Cur)
    /\ plan(Cur).loads = loads /\ find(Cur).loads = loads
    /\ plan(Cur).runs = runs /\ find(Cur).runs = runs
    /\ plan(Cur).overpass = overpass /\ find(Cur).overpass = overpass

\* plan() has been called in local scope, after an accepted footprint
\* answer: the state is one that a further plan() leaves alone and that
\* find() would change
C25_PlanEnteredFromLocal ==
  /\ country # "" /\ clData /\ layersAdded
  /\ bldData.kind = "osm" /\ announce = "clickBtn"
  /\ activeModel = "plan" /\ ~zoomed
  /\ plan(Cur) = Cur
  /\ find(Cur) # Cur

\* C26: the reveal of the network during playback is cumulative: a step
\* change by prevStep or nextStep, and a dynamic run that starts playback at
\* step 1, leave the network filter admitting exactly the stages up to the
\* new step; nextStep never takes a stage away that the stage filter of
\* the playback showed.
C26_CumulativeReveal ==
  [][ /\ ( /\ PrevStep \/ NextStep
           /\ currentStep' # currentStep /\ network'.exists )
           => NetworkStages(network'.filter) = 1..currentStep'
      /\ (NextStep /\ network.exists /\ network.filter # NoFilter)
           => NetworkStages(network.filter) \subseteq NetworkStages(network'.filter)
      /\ ( /\ \E req \in BagToSet(runs) : ShowPlanNat(req)
           /\ dynamic' /\ network'.exists )
           => NetworkStages(network'.filter) = 1..currentStep'
    ]_vars

\* playback stands at step 2 after a step change: the network
\* shows stages 1 and 2
C26_BackAtStepTwo ==
  /\ StepBoxShown /\ network.exists
  /\ currentStep = 2
  /\ summary.step = 2
  /\ stepYear = FirstYear + YearStep
  /\ hist = Idle
  /\ network.filter = StageUpTo(2)
  /\ clusters.fillColor = TypeKey(2)

\* C27: after the success callback of a plan-national run: if the run was
\* dynamic, the step is 1, the year label is 2025, the step box is shown
\* and the network is filtered to stage 1; if it was not (switch off, or a
\* country of the deny-list), the step box is hidden and the network layer
\* has no filter.
C27_RunSetsPlayback ==
  [][ \A req \in BagToSet(runs) :
        ShowPlanNat(req) =>
          IF req.dynamic
          THEN /\ currentStep' = 1 /\ stepYear' = FirstYear
               /\ ~hidden'["dynamic-box"]
               /\ network'.exists /\ network'.filter = StageIs(1)
          ELSE /\ hidden'["dynamic-box"]
               /\ network'.exists /\ network'.filter = NoFilter
    ]_vars

\* C28: whenever the mode is find and the network layer exists, the
\* network layer is not visible.
C28_NoNetworkInFind ==
  (activeModel = "find" /\ network.exists) => ~network.visible

\* C29: hideClusters() called with any of the five range parameters of
\* find-nat absent (or empty) fails before it sets a filter: the clusters
\* layers keep the filter they had, and no filter with fewer clauses or
\* with default bounds is applied; with all five stored it applies the ten
\* clauses.
C29_MissingRangeFails ==
  [][ HideClusters =>
        IF \E i \in 1..Len(FilterParams) :
              Missing(ParamsOf(Cur, "find-nat"), RangeName(FilterParams[i]))
        THEN clusters' = clusters
        ELSE /\ Len(clusters'.filter) = 10
             /\ clusters'.outlineFilter = clusters'.filter
    ]_vars

\* hideClusters() has been called with gdp-range absent and the other four
\* ranges stored: the layers carry no filter
C29_GdpAbsentNoFilter ==
  /\ hist.scen = "filtered"
  /\ DOMAIN hist.params =
       {"pop-range", "grid-range", "ntl-range", "travel-range"}
  /\ \A n \in DOMAIN hist.params : hist.params[n] # <<>>
  /\ clusters.filter = NoFilter /\ clusters.outlineFilter = NoFilter


\* C30: in the mini-grid front end the first map click after a village was
\* shown fixes the generator: a click before any village is shown changes
\* nothing, the first click after it stores the clicked point (to four
\* decimals) and adds the ten parameter inputs and the run control, and
\* once a generator is stored no step changes its latitude or longitude,
\* its marker, the parameter inputs or the run control.
C30_FirstClickFixesGenerator ==
  [][ /\ (used'.clicks # used.clicks /\ ~mgo.readyForGen) => mgo' = mgo
      /\ (used'.clicks # used.clicks /\ mgo.readyForGen /\ ~mgo.hasGenLocation)
           => /\ mgo'.hasGenLocation
              /\ mgo'.genLat = toFixed4(hist'.value[1])
              /\ mgo'.genLng = toFixed4(hist'.value[2])
              /\ Len(mgo'.paramRows) = Len(ParamInputs)
              /\ mgo'.runControls = 1
      /\ mgo.hasGenLocation
           => /\ mgo'.hasGenLocation
              /\ mgo'.genLat = mgo.genLat /\ mgo'.genLng = mgo.genLng
              /\ mgo'.markers = mgo.markers
              /\ mgo'.paramRows = mgo.paramRows
              /\ mgo'.runControls = mgo.runControls ]_vars
\* a click somewhere else, after the generator was chosen, left it in place
C30_LaterClickIgnored ==
  /\ hist.scen = "mapClicked"
  /\ hist.pre.hasGenLocation
  /\ toFixed4(hist.value[1]) # hist.pre.genLat
  /\ mgo.genLat = hist.pre.genLat
  /\ Len(mgo.paramRows) = Len(ParamInputs)
  /\ used.clicks = MaxClicks


\* C31: in the mini-grid front end, once the answer of a model run has been
\* processed the map holds exactly one network layer and one buildings
\* layer and the results table holds exactly seven rows, all of one run,
\* which right after an answer is the run of that answer: the results of
\* earlier runs are removed.
C31_ResultsReplaced ==
  mgo.paramHead = "Check your results" =>
    /\ BagCardinality(mgo.mapNetworks) = 1
    /\ BagCardinality(mgo.mapBuildings) = 1
    /\ mgo.mapNetworks = mgo.mapBuildings
    /\ Len(mgo.results) = 7
    /\ \A i \in 1..Len(mgo.results) : BagIn(mgo.results[i].run, mgo.mapNetworks)
    /\ hist.scen = "resultsShown" => BagIn(hist.n, mgo.mapNetworks)


\* C40: in the mini-grid front end every run request in flight names the
\* village that was shown when its generator location was clicked.
C40_GeneratorOfNamedVillage ==
  \A req \in BagToSet(mgo.requests) :
    /\ req.gen_lat = mgo.genLat /\ req.gen_lng = mgo.genLng
    /\ req.name = mgo.genVillage


\* C32: whenever the step box is visible (in the explore panel, no modal
\* in the way) a dynamic plan is stored and it is the plan of the selected
\* country, so a step is never taken before the first dynamic run nor
\* against the plan of another country.
C32_StepBoxNeedsPlan ==
  StepBoxShown => (dynamicSummary # NoPlan /\ dynamicSummary.country = country)


\* C33: during dynamic playback (a dynamic plan of the selected country is
\* stored and rendered, the step box is available, the step is below the
\* last) nextStep followed by prevStep gives back the same step, year
\* label, network filter, cluster styling and displayed summary; the state
\* right after the dynamic run completed is one of these states.
C33_StepRoundTrip ==
  ( /\ StepBoxShown /\ dynamic /\ activeModel = "plan" /\ ~zoomed
    /\ dynamicSummary.steps /\ dynamicSummary.country = country
    /\ network.exists /\ network.filter # NoFilter
    /\ currentStep < LastStep )
  => /\ prevStep(nextStep(Cur)).currentStep = currentStep
     /\ prevStep(nextStep(Cur)).stepYear = stepYear
     /\ prevStep(nextStep(Cur)).network.filter = network.filter
     /\ prevStep(nextStep(Cur)).clusters.fillColor = clusters.fillColor
     /\ prevStep(nextStep(Cur)).clusters.lineColor = clusters.lineColor
     /\ prevStep(nextStep(Cur)).summary = summary


\* C34: every click on the run control that sends a request sends it to the
\* scenario whose sliders are displayed: the scenario of the new request
\* is the state key of the sliders in the side bar.
C34_RunMatchesSliders ==
  [][ (used'.requests # used.requests /\ runs' # runs)
        => \E req \in BagToSet(runs') :
             /\ CopiesIn(req, runs') > CopiesIn(req, runs)
             /\ req.scen = sliders ]_vars


\* C35: a plan-loc request is issued only in LocalReady: the footprints of
\* the clicked cluster have been received and accepted (they, or the result
\* of an earlier run on them, are in the buildings source), no footprint
\* request is pending, the run control is enabled and the view has not been
\* zoomed out (the plan-local sliders are displayed).
C35_LocalRunOnlyWhenReady ==
  [][ ( /\ used'.requests # used.requests
        /\ \E req \in BagToSet(runs') :
             req.scen = "plan-loc" /\ CopiesIn(req, runs') > CopiesIn(req, runs) )
        => /\ ~runDisabled
           /\ bldData.kind # "empty" /\ bldData.of = clusterBounds
           /\ overpass = EmptyBag
           /\ sliders = "plan-loc" ]_vars


\* C36: a footprint answer that changes the data of the buildings source
\* or the enabled state of the run control is the answer for the cluster
\* selected last, received while the view is still zoomed in on it (the
\* plan-local side bar is displayed): an answer arriving after a zoom-out
\* or for other bounds changes neither.
C36_AnswerOfCurrentSelection ==
  [][ ( /\ BagCardinality(overpass') < BagCardinality(overpass)
        /\ (bldData' # bldData \/ runDisabled' # runDisabled) )
        => /\ zoomed /\ sliders = "plan-loc"
           /\ CopiesIn(clusterBounds, overpass') < CopiesIn(clusterBounds, overpass) ]_vars


\* C37: the national message put into the announce area (by a zoom-out, or
\* when a country is loaded) stays until the next cluster selection or a
\* change of mode or country: no other step, and in particular no timer of
\* an earlier rejection and no late footprint answer, replaces it.
C37_NationalMessageStays ==
  [][ (announce = "clickMsg" /\ announce' # "clickMsg")
        => \/ BagCardinality(overpass') > BagCardinality(overpass)
           \/ activeModel' # activeModel
           \/ country' # country ]_vars


\* C38: once the cluster layers exist, the clusters are de-emphasised
\* exactly while the plan-local side bar is displayed: with the
\* plan-national or find-national sliders the fill opacity is 0.5 and
\* hovering shows the popup, with the plan-local sliders the opacity is 0.1
\* and the popup is suppressed.
C38_DeEmphasisIffLocal ==
  layersAdded =>
    /\ sliders \in {"plan-nat", "find-nat"}
         => (clusters.opacity = "0.5" /\ clusters.popupOnHover)
    /\ sliders = "plan-loc"
         => (clusters.opacity = "0.1" /\ ~clusters.popupOnHover)


\* C39: the value label of every displayed range slider shows the infinity
\* sign as its upper bound exactly when the stored upper bound is an
\* unbounded value (one at or beyond the slider's max: the 1e14 of the
\* defaults, the 1e19 of the slide handler), and shows the stored number
\* otherwise.
C39_LabelShowsStoredUpper ==
  sliders # "" =>
    \A n \in ConfigNamesOf[sliders] :
       ConfigByName[sliders][n].type = "range" =>
         IF DecLe(ParseNum(ConfigByName[sliders][n].max),
                  ParseRange(sliderParams[sliders][n])[2])
         THEN UpperText(labels[n]) = Infinity
         ELSE /\ UpperText(labels[n]) # Infinity
              /\ ParseNum(UpperText(labels[n])) = ParseRange(sliderParams[sliders][n])[2]

====
